---- MODULE Spec2Model ----
(***************************************************************************)
(* A model of aoc-bot: the scheduled poll-diff-notify cycle                *)
(* (aoc_bot/modules/leaderboard.py) and the /link_aoc and /unlink_aoc      *)
(* slash commands (aoc_bot/modules/link_command.py).                       *)
(*                                                                         *)
(* All coroutines run on one event-loop thread.  A coroutine runs without  *)
(* interruption up to its next await; `thread` names the coroutine that    *)
(* occupies the thread between two synchronous steps the model separates   *)
(* (a file being written, a blocking lock acquire), and is Free otherwise. *)
(* Strings of digits (member ids, days, parts, user ids) are sequences of  *)
(* digits, so that str() and string comparison are computed, not assumed.  *)
(***************************************************************************)
EXTENDS Integers, Sequences, FiniteSets, TLC

\* ------------------------------------------------------------------ bounds
MaxCycles == 2
MaxCmds == 2
MaxCrashes == 1
MaxContentLen == 33

\* range(1, 26) in solved_all_days
TotalDays == 25

\* max_content_len's default in send_webhook_notification
DefaultMaxContentLen == 2000

Cycles == 1..MaxCycles
Cmds == 1..MaxCmds

\* ----------------------------------------------------------------- strings
RECURSIVE Str(_)
Str(n) == IF n < 10 THEN <<n>> ELSE Append(Str(n \div 10), n % 10)

\* int() of a string of digits
RECURSIVE int(_)
int(s) == IF s = <<>> THEN 0 ELSE int(SubSeq(s, 1, Len(s) - 1)) * 10 + s[Len(s)]

\* Python's < on str: first differing character decides, a proper prefix is smaller.
RECURSIVE StrLess(_, _)
StrLess(a, b) ==
    IF b = <<>> THEN FALSE
    ELSE IF a = <<>> THEN TRUE
    ELSE IF Head(a) # Head(b) THEN Head(a) < Head(b)
    ELSE StrLess(Tail(a), Tail(b))

\* Python's < on tuples of str.
TupleLess(x, y) ==
    \/ StrLess(x[1], y[1])
    \/ x[1] = y[1] /\ StrLess(x[2], y[2])
    \/ x[1] = y[1] /\ x[2] = y[2] /\ StrLess(x[3], y[3])

\* sorted() of a set of tuples: each element stands after the elements smaller than it.
sorted(S) ==
    LET ranked == {<<Cardinality({y \in S : TupleLess(y, x)}) + 1, x>> : x \in S}
    IN  [i \in 1..Cardinality(S) |-> (CHOOSE p \in ranked : p[1] = i)[2]]

\* ------------------------------------------------------------------- files
\* A file is absent, holds text that is no complete JSON document (empty or
\* truncated), or holds a JSON document.
Absent == [kind |-> "absent", data |-> <<>>]
Corrupt == [kind |-> "corrupt", data |-> <<>>]
Json(d) == [kind |-> "json", data |-> d]

\* ------------------------------------------------------------ leaderboards
\* A leaderboard is its "members" object: member id -> [name, completion_day_level],
\* completion_day_level: day -> set of parts.  {} is the empty function.
EmptyLeaderboard == <<>>

\* Days 1..n with both parts, and day n+1 with part 1 only when `half`.
Levels(n, half) ==
    [d \in {Str(i) : i \in 1..(n + (IF half THEN 1 ELSE 0))} |->
        IF d \in {Str(i) : i \in 1..n} THEN {Str(1), Str(2)} ELSE {Str(1)}]

\* Member 7 shows a name on the leaderboard, member 42 is anonymous.
AocIds == {7, 42}
Users == {1, 2}
GuildMembers == {1}

Member(id, named, levels) ==
    [id |-> id, name |-> IF named THEN "name" ELSE "", completion_day_level |-> levels]

\* Late December: member 7 has one day left, has only its second part left, or
\* has finished; member 42, ten days in, is on the leaderboard or has left it.
Profiles == {Levels(TotalDays - 1, FALSE), Levels(TotalDays - 1, TRUE),
             Levels(TotalDays, FALSE)}

Leaderboard(p, with42) ==
    [m \in {Str(7)} \cup (IF with42 THEN {Str(42)} ELSE {}) |->
        IF m = Str(7) THEN Member(7, TRUE, p) ELSE Member(42, FALSE, Levels(10, FALSE))]

\* The leaderboards the remote endpoint may answer with.
Leaderboards == {Leaderboard(p, w) : p \in Profiles, w \in BOOLEAN}

\* The leaderboard an earlier cycle has saved.
Cached == Leaderboard(Levels(TotalDays - 1, FALSE), TRUE)

\* An HTTP exchange: a network error, a non-2xx status, or a 2xx with a body.
Responses ==
    {[status |-> "neterr", body |-> EmptyLeaderboard],
     [status |-> "http_error", body |-> EmptyLeaderboard]}
    \cup {[status |-> "ok", body |-> lb] : lb \in Leaderboards}

retrieve_cached_leaderboard(file) ==
    IF file.kind = "absent" THEN [raised |-> FALSE, value |-> EmptyLeaderboard]
    ELSE IF file.kind = "corrupt" THEN [raised |-> TRUE, value |-> EmptyLeaderboard]
    ELSE [raised |-> FALSE, value |-> file.data]

\* fetch_leaderboard without raise_for_status: an error answer is parsed like any other.
fetch_leaderboard_unchecked(resp) == [raised |-> FALSE, value |-> resp.body]

fetch_leaderboard(resp) ==
    IF resp.status = "ok" THEN [raised |-> FALSE, value |-> resp.body]
    ELSE [raised |-> TRUE, value |-> EmptyLeaderboard]

\* get_leaderboard_set keeping one part per setting: second parts when both are
\* required, first parts otherwise.
get_leaderboard_set_one_part(leaderboard, require_both) ==
    UNION {UNION {{<<m, d, p>> :
                     p \in {q \in leaderboard[m].completion_day_level[d] :
                              (require_both /\ q = Str(2)) \/ (~require_both /\ q = Str(1))}} :
                  d \in DOMAIN leaderboard[m].completion_day_level} :
           m \in DOMAIN leaderboard}

get_leaderboard_set(leaderboard, require_both) ==
    UNION {UNION {{<<m, d, p>> :
                     p \in {q \in leaderboard[m].completion_day_level[d] :
                              (require_both /\ q = Str(2)) \/ ~require_both}} :
                  d \in DOMAIN leaderboard[m].completion_day_level} :
           m \in DOMAIN leaderboard}

\* solved_all_days counting a day's first part as well.
solved_all_days_any_part(events, member_id) ==
    \A day \in 1..TotalDays :
        \E event \in events : event[1] = member_id /\ event[2] = Str(day)

solved_all_days(events, member_id) ==
    \A day \in 1..TotalDays :
        \E event \in events :
            event[1] = member_id /\ event[2] = Str(day) /\ event[3] = Str(2)

\* "... and more updates.", as character codes
Marker ==
    <<46, 46, 46, 32, 97, 110, 100, 32, 109, 111, 114, 101, 32,
      117, 112, 100, 97, 116, 101, 115, 46>>

\* The content send_webhook_notification hands to execute_webhook.
send_webhook_notification(content, max_content_len) ==
    IF Len(content) > max_content_len
    THEN SubSeq(content, 1, max_content_len \div 3) \o Marker
    ELSE content

\* get_default_year, with date.today() as its input.
get_default_year(today) ==
    IF today.month # 11 /\ today.month # 12 THEN today.year - 1 ELSE today.year

\* The diff on_schedule takes between the cached and the fetched leaderboard.
on_schedule_diff(old_leaderboard, new_leaderboard, require_both) ==
    sorted(get_leaderboard_set(new_leaderboard, require_both)
           \ get_leaderboard_set(old_leaderboard, require_both))

\* ----------------------------------------------------------------- mapping
\* The mapping is a JSON object, a Python dict: an insertion-ordered sequence of
\* <<key, value>> pairs with distinct keys.
MapKeys(mapping) == {mapping[i][1] : i \in 1..Len(mapping)}
MapHas(mapping, k) == k \in MapKeys(mapping)
MapGet(mapping, k) == (CHOOSE i \in 1..Len(mapping) : mapping[i][1] = k)
MapValue(mapping, k) == mapping[MapGet(mapping, k)][2]

\* link_command writing the new entry alone.
MapSet_forgets(mapping, k, v) == <<<<k, v>>>>

\* mapping[k] = v
MapSet(mapping, k, v) ==
    IF MapHas(mapping, k)
    THEN [mapping EXCEPT ![MapGet(mapping, k)] = <<k, v>>]
    ELSE Append(mapping, <<k, v>>)

\* ----------------------------------------------------- notification pieces
\* One line of a notification: the event, how the member is shown, and which
\* final message follows the line ("none" when the member has days left).
NoLine == [event |-> <<>>, display |-> <<>>, final |-> "none"]

display_aoc_user(file, aoc_user, discord_members) ==
    IF /\ file.kind = "json"
       /\ MapHas(file.data, Str(aoc_user.id))
       /\ int(MapValue(file.data, Str(aoc_user.id))) \in discord_members
    THEN <<"mention", MapValue(file.data, Str(aoc_user.id))>>
    ELSE IF aoc_user.name # "" THEN <<"name", aoc_user.name>>
    ELSE <<"anonymous", Str(aoc_user.id)>>

display_final_message(file, member_id, role_id) ==
    IF ~role_id THEN "congrats"
    ELSE IF file.kind = "json" /\ MapHas(file.data, member_id) THEN "congrats_role"
    ELSE "congrats_link"

\* Whether give_role reaches add_role_to_member: the mapping file parses, holds
\* the member, and int(role_id) does not raise.  Everything else is swallowed
\* by `finally: return`.
give_role_calls(file, member_id, role_id) ==
    file.kind = "json" /\ MapHas(file.data, member_id) /\ role_id

\* The role id in cli_args.completion_role when one is configured: a Discord
\* snowflake, 18 digits.
CompletionRole == [i \in 1..18 |-> 1]

\* len() of what display_aoc_user returns: "<@" id ">", the name, or
\* "Anonymous User #" id.
display_aoc_user_len(display) ==
    CASE display[1] = "mention" -> 3 + Len(display[2])
      [] display[1] = "name" -> Len(display[2])
      [] OTHER -> 16 + Len(display[2])

\* len() of "\n" + display_final_message(...) with a 4-digit year: the
\* congratulation (57 characters as written in the source), then nothing, the
\* reward sentence around the role id (60), or the invitation to link (91).
display_final_message_len(final) ==
    CASE final = "none" -> 0
      [] final = "congrats" -> 1 + 57
      [] final = "congrats_role" -> 1 + 57 + 60 + Len(CompletionRole)
      [] OTHER -> 1 + 57 + 91

\* len() of one message of on_schedule: "[" stars "] " user " solved Day #" day
\* "." (the stars are 6 characters as written in the source), then the final
\* message when there is one.
message_len(line) ==
    1 + 6 + 2 + display_aoc_user_len(line.display) + 13 + Len(line.event[2]) + 1
    + display_final_message_len(line.final)

\* len("\n".join(messages[:n]))
RECURSIVE content_len(_, _)
content_len(messages, n) ==
    IF n = 0 THEN 0
    ELSE content_len(messages, n - 1) + (IF n > 1 THEN 1 ELSE 0) + message_len(messages[n])

\* How many of the messages are whole in the content send_webhook_notification
\* hands to execute_webhook: all of them, or those within the first
\* max_content_len // 3 characters when the content is longer than
\* max_content_len.
lines_sent(messages, max_content_len) ==
    LET ends == [n \in 0..Len(messages) |-> content_len(messages, n)]
    IN  IF ends[Len(messages)] > max_content_len
        THEN Cardinality({n \in 1..Len(messages) : ends[n] <= max_content_len \div 3})
        ELSE Len(messages)

\* on_schedule taking every empty diff for a negative change.
on_schedule_branch_no_equality(old_events, new_events) ==
    IF new_events \ old_events # {} THEN "notify" ELSE "regression"

\* on_schedule returning on every empty diff.
on_schedule_branch_no_backup(old_events, new_events) ==
    IF new_events \ old_events # {} THEN "notify" ELSE "no_change"

\* The branch on_schedule takes once both event sets are known.
on_schedule_branch(old_events, new_events) ==
    IF new_events \ old_events # {} THEN "notify"
    ELSE IF old_events = new_events THEN "no_change"
    ELSE "regression"

\* on_schedule from its start to its first return, raise, file operation or await.
on_schedule_begin(cache, resp, args) ==
    LET old == retrieve_cached_leaderboard(cache)
        new == fetch_leaderboard(resp)
        old_events == get_leaderboard_set(old.value, args.require_both_stars)
        new_events == get_leaderboard_set(new.value, args.require_both_stars)
    IN  IF old.raised THEN [outcome |-> "cache_error", new |-> EmptyLeaderboard, diff |-> <<>>]
        ELSE IF new.raised
             THEN [outcome |-> "fetch_error", new |-> EmptyLeaderboard, diff |-> <<>>]
        ELSE [outcome |-> on_schedule_branch(old_events, new_events),
              new |-> new.value,
              diff |-> sorted(new_events \ old_events)]

\* on_schedule congratulating on every line.
Line_congratulates_all(c, new_events, file, args, n) ==
    [event |-> c.diff[n],
     display |-> display_aoc_user(file, c.new[c.diff[n][1]], GuildMembers),
     final |-> display_final_message(file, c.diff[n][1], args.completion_role)]

\* The line on_schedule builds for event n of the diff.
Line(c, new_events, file, args, n) ==
    [event |-> c.diff[n],
     display |-> display_aoc_user(file, c.new[c.diff[n][1]], GuildMembers),
     final |-> IF solved_all_days(new_events, c.diff[n][1])
               THEN display_final_message(file, c.diff[n][1], args.completion_role)
               ELSE "none"]

\* Event n of the diff makes on_schedule await add_role_to_member.
AwaitsRole(c, new_events, file, args, n) ==
    /\ solved_all_days(new_events, c.diff[n][1])
    /\ args.completion_role
    /\ give_role_calls(file, c.diff[n][1], args.completion_role)

\* The for loop with give_role letting its exceptions out: the run ends at the
\* first completer whose grant cannot be made.
on_schedule_loop_role_raises(c, new_events, file, args) ==
    LET calls == {n \in c.i..Len(c.diff) :
                     solved_all_days(new_events, c.diff[n][1]) /\ args.completion_role}
        stop == IF calls = {} THEN Len(c.diff) + 1
                ELSE CHOOSE n \in calls : \A m \in calls : n <= m
        lines == [n \in 1..(stop - c.i) |-> Line(c, new_events, file, args, c.i + n - 1)]
    IN  [c EXCEPT !.messages = @ \o lines,
                  !.i = stop,
                  !.pc = IF calls = {} THEN "await_webhook"
                         ELSE IF AwaitsRole(c, new_events, file, args, stop) THEN "await_role"
                         ELSE "failed",
                  !.pending = IF calls = {} THEN NoLine
                              ELSE Line(c, new_events, file, args, stop)]

\* The for loop of on_schedule from event c.i on, up to the next await: an
\* add_role_to_member call (pc "await_role", the line pending) or, after the
\* last event, the webhook call.
on_schedule_loop(c, new_events, file, args) ==
    LET waits == {n \in c.i..Len(c.diff) : AwaitsRole(c, new_events, file, args, n)}
        stop == IF waits = {} THEN Len(c.diff) + 1
                ELSE CHOOSE n \in waits : \A m \in waits : n <= m
        lines == [n \in 1..(stop - c.i) |-> Line(c, new_events, file, args, c.i + n - 1)]
    IN  [c EXCEPT !.messages = @ \o lines,
                  !.i = stop,
                  !.pc = IF waits = {} THEN "await_webhook" ELSE "await_role",
                  !.pending = IF waits = {} THEN NoLine
                              ELSE Line(c, new_events, file, args, stop)]

\* The loop resumed in run c with the mapping file as it is now.
ResumeLoop(c, file, args) ==
    on_schedule_loop(c, get_leaderboard_set(c.new, args.require_both_stars), file, args)

\* ------------------------------------------------------------------- state
VARIABLES
    cfg,          \* cli_args: require_both_stars, completion_role (set or not)
    cacheFile,    \* the file at cli_args.cache_file
    backups,      \* contents of the files at cache_file + "<timestamp>.cachebackup"
    mappingFile,  \* the file at cli_args.mapping_file
    lock,         \* username_db_lock: 0 when free, else the command holding it
    thread,       \* the coroutine occupying the event-loop thread, or Free
    cyc,          \* the on_schedule runs
    cmd,          \* the link_command / unlink_command invocations
    webhooks,     \* the send_webhook_notification calls that returned, in order,
                  \* each with the lines joined into its content
    roleCalls,    \* the add_role_to_member calls made
    crashes,      \* process crashes (each followed by a restart) so far
    history,      \* the mapping mutations written back, in order
    interleaved,  \* a command read the mapping inside another's read..write-back
    call          \* a helper function called on its own: arguments, then result

vars == <<cfg, cacheFile, backups, mappingFile, lock, thread, cyc, cmd, webhooks,
          roleCalls, crashes, history, interleaved, call>>

\* No helper is being called on its own.
NoCall == [fn |-> "none", args |-> <<>>, returned |-> FALSE, ret |-> <<>>]

Free == <<>>
CycleId(k) == <<"cycle", k>>
CmdId(c) == <<"cmd", c>>

IdleCycle ==
    [pc |-> "idle", status |-> "", outcome |-> "", new |-> EmptyLeaderboard, diff |-> <<>>,
     i |-> 1, messages |-> <<>>, pending |-> NoLine]

IdleCmd ==
    [pc |-> "idle", kind |-> "", author |-> 0, aoc_id |-> <<>>, mapping |-> <<>>,
     cached |-> EmptyLeaderboard, replies |-> 0, reply |-> "", line |-> NoLine]

\* The state after start-up, with the two files as a run finds them.
Start(cacheFiles, mappingFiles) ==
    /\ cfg \in [require_both_stars : BOOLEAN, completion_role : BOOLEAN]
    /\ cacheFile \in cacheFiles
    /\ backups = {}
    /\ mappingFile \in mappingFiles
    /\ lock = 0
    /\ thread = Free
    /\ cyc = [k \in Cycles |-> IdleCycle]
    /\ cmd = [c \in Cmds |-> IdleCmd]
    /\ webhooks = <<>>
    /\ roleCalls = {}
    /\ crashes = 0
    /\ history = <<>>
    /\ interleaved = FALSE

\* The bot starts with the cache an earlier run has saved and no mapping yet.
Init == Start({Json(Cached)}, {Absent}) /\ call = NoCall

\* The mapping files the poll cycle is checked against: none, a truncated one
\* (a crash inside a command's write), and mappings that link member 7 to a
\* user of the guild, to a user outside it, or not at all.
MappingFiles ==
    {Absent, Corrupt, Json(<<>>), Json(<<<<Str(7), Str(1)>>>>),
     Json(<<<<Str(42), Str(1)>>, <<Str(7), Str(2)>>>>)}

\* The cache files the commands are checked against: none (a first run), a
\* truncated one (a crash inside save_cached_leaderboard), and saved leaderboards.
CacheFiles == {Absent, Corrupt} \cup {Json(lb) : lb \in Leaderboards}

InitPoll == Start({Json(Cached)}, MappingFiles) /\ call = NoCall

InitLink == Start(CacheFiles, {Absent}) /\ call = NoCall

\* The mapping files the commands are checked against: none, a truncated one,
\* an empty mapping, and mappings where user 1 holds one entry, the first two
\* entries, or the second entry.
LinkedFiles ==
    {Absent, Corrupt, Json(<<>>), Json(<<<<Str(7), Str(1)>>>>),
     Json(<<<<Str(7), Str(1)>>, <<Str(42), Str(1)>>>>),
     Json(<<<<Str(42), Str(2)>>, <<Str(7), Str(1)>>>>)}

InitMapping ==
    Start({Corrupt, Json(Cached), Json(Leaderboard(Levels(TotalDays, FALSE), TRUE))},
          LinkedFiles) /\ call = NoCall

\* ------------------------------------------------------------- on_schedule
Finished(c, outcome) ==
    [IdleCycle EXCEPT !.pc = "done", !.status = c.status, !.outcome = outcome,
                      !.new = c.new]

Failed(c, outcome) ==
    [IdleCycle EXCEPT !.pc = "failed", !.status = c.status, !.outcome = outcome]

\* A scheduler tick starts run k: the cache is read, the leaderboard fetched
\* (a blocking call) and the branch taken.  On a regression os.replace moves the
\* cache file to the backup path and the save follows.
Tick(k) ==
    /\ thread = Free
    /\ cyc[k].pc = "idle"
    /\ \A j \in Cycles : j < k => cyc[j].pc # "idle"
    /\ \E resp \in Responses :
         LET r == on_schedule_begin(cacheFile, resp, cfg)
             c == [cyc[k] EXCEPT !.status = resp.status, !.outcome = r.outcome,
                                 !.new = r.new, !.diff = r.diff]
             replaced == r.outcome = "regression" /\ cacheFile.kind # "absent"
         IN  /\ cyc' = [cyc EXCEPT ![k] =
                    CASE r.outcome \in {"cache_error", "fetch_error"} -> Failed(c, r.outcome)
                      [] r.outcome = "no_change" -> Finished(c, "no_change")
                      [] r.outcome = "notify" -> [c EXCEPT !.pc = "await_guild"]
                      [] OTHER -> IF replaced THEN [c EXCEPT !.pc = "save_open"]
                                  ELSE Failed(c, "replace_error")]
             /\ cacheFile' = IF replaced THEN Absent ELSE cacheFile
             /\ backups' = IF replaced THEN backups \cup {cacheFile} ELSE backups
             /\ thread' = IF replaced THEN CycleId(k) ELSE Free
    /\ UNCHANGED <<call, cfg, mappingFile, lock, cmd, webhooks, roleCalls, crashes, history,
                   interleaved>>

\* fetch_guild returns or raises; on return the loop runs to its next await.
GuildReturn(k) ==
    /\ thread = Free
    /\ cyc[k].pc = "await_guild"
    /\ \E ok \in BOOLEAN :
         LET c == ResumeLoop(cyc[k], mappingFile, cfg)
         IN  /\ cyc' = [cyc EXCEPT ![k] = IF ok THEN c ELSE Failed(cyc[k], "guild_error")]
             /\ roleCalls' = IF ok /\ c.pc = "await_role"
                             THEN roleCalls \cup {[by |-> CycleId(k), member |-> c.pending.event[1],
                                                   user |-> MapValue(mappingFile.data, c.pending.event[1])]}
                             ELSE roleCalls
    /\ UNCHANGED <<call, cfg, cacheFile, backups, mappingFile, lock, thread, cmd, webhooks,
                   crashes, history, interleaved>>

\* add_role_to_member returns or raises (both end give_role the same way); the
\* line is appended and the loop goes on.
RoleReturn(k) ==
    /\ thread = Free
    /\ cyc[k].pc = "await_role"
    /\ LET c == ResumeLoop(
                    [cyc[k] EXCEPT !.messages = Append(@, cyc[k].pending),
                                   !.pending = NoLine, !.i = @ + 1], mappingFile, cfg)
       IN  /\ cyc' = [cyc EXCEPT ![k] = c]
           /\ roleCalls' = IF c.pc = "await_role"
                           THEN roleCalls \cup {[by |-> CycleId(k), member |-> c.pending.event[1],
                                                 user |-> MapValue(mappingFile.data, c.pending.event[1])]}
                           ELSE roleCalls
    /\ UNCHANGED <<call, cfg, cacheFile, backups, mappingFile, lock, thread, cmd, webhooks,
                   crashes, history, interleaved>>

\* execute_webhook returns or raises; on return save_cached_leaderboard starts.
WebhookReturn(k) ==
    /\ thread = Free
    /\ cyc[k].pc = "await_webhook"
    /\ \E ok \in BOOLEAN :
         IF ok
         THEN /\ webhooks' = Append(webhooks, [by |-> CycleId(k), lines |-> cyc[k].messages])
              /\ cyc' = [cyc EXCEPT ![k].pc = "save_open"]
              /\ thread' = CycleId(k)
         ELSE /\ webhooks' = webhooks
              /\ cyc' = [cyc EXCEPT ![k] = Failed(cyc[k], "webhook_error")]
              /\ thread' = Free
    /\ UNCHANGED <<call, cfg, cacheFile, backups, mappingFile, lock, cmd, roleCalls, crashes,
                   history, interleaved>>

\* save_cached_leaderboard: open(cache_file, "w+") truncates the file ...
SaveOpen(k) ==
    /\ thread = CycleId(k)
    /\ cyc[k].pc = "save_open"
    /\ cacheFile' = Corrupt
    /\ cyc' = [cyc EXCEPT ![k].pc = "save_dump"]
    /\ UNCHANGED <<call, cfg, backups, mappingFile, lock, thread, cmd, webhooks, roleCalls,
                   crashes, history, interleaved>>

\* save_cached_leaderboard writing an empty document.
save_cached_leaderboard_empty(data) == Json(EmptyLeaderboard)

\* The file save_cached_leaderboard leaves: json.dump(data, f)
save_cached_leaderboard(data) == Json(data)

\* ... and json.dump and the close write the document.
SaveDump(k) ==
    /\ thread = CycleId(k)
    /\ cyc[k].pc = "save_dump"
    /\ cacheFile' = save_cached_leaderboard(cyc[k].new)
    /\ cyc' = [cyc EXCEPT ![k] = Finished(cyc[k], cyc[k].outcome)]
    /\ thread' = Free
    /\ UNCHANGED <<call, cfg, backups, mappingFile, lock, cmd, webhooks, roleCalls, crashes,
                   history, interleaved>>

\* ------------------------------------------------- link_command, unlink_command
\* The commands without the mutex.
username_db_lock_ignored(l) == TRUE

\* `with username_db_lock:` enters at once only when the lock is free.
username_db_lock_free(l) == l = 0

\* The mapping as the commands read it: {} when the file does not exist.
ReadMapping(file) == IF file.kind = "json" THEN file.data ELSE <<>>

\* The index of the first entry whose value is the author, 0 when there is none.
FirstLinked(mapping, discord_id) ==
    IF \E i \in 1..Len(mapping) : mapping[i][2] = discord_id
    THEN CHOOSE i \in 1..Len(mapping) :
             /\ mapping[i][2] = discord_id
             /\ \A j \in 1..(i - 1) : mapping[j][2] # discord_id
    ELSE 0

\* unlink_command dropping every entry of the author.
MapPop_every_match(mapping, i) ==
    SelectSeq(mapping, LAMBDA e : e[2] # mapping[i][2])

\* mapping.pop(key of entry i)
MapPop(mapping, i) == SubSeq(mapping, 1, i - 1) \o SubSeq(mapping, i + 1, Len(mapping))

\* The second half of both commands' first synchronous stretch: the cache is
\* read, the mapping file opened for writing (which truncates it) and the dump
\* left in the file object's buffer while ctx.respond is awaited.
WriteAndRespond(me, mapping, file, cache, write_ok, reply) ==
    LET cached == retrieve_cached_leaderboard(cache)
    IN  IF cached.raised
        THEN [me |-> [me EXCEPT !.pc = "failed"], file |-> file, held |-> FALSE]
        ELSE IF ~write_ok
        THEN [me |-> [me EXCEPT !.pc = "respond", !.reply = "write_failed"],
              file |-> file, held |-> TRUE]
        ELSE [me |-> [me EXCEPT !.pc = "respond", !.reply = reply, !.mapping = mapping,
                                !.cached = cached.value],
              file |-> Corrupt, held |-> TRUE]

\* link_command taking an unparseable mapping file for a missing one.
link_command_begin_overwrites(me, file, cache, write_ok) ==
    WriteAndRespond(me, MapSet(ReadMapping(file), me.aoc_id, Str(me.author)),
                    file, cache, write_ok, "linked")

\* link_command from the lock's acquisition to its first await or raise.
link_command_begin(me, file, cache, write_ok) ==
    IF file.kind = "corrupt"
    THEN [me |-> [me EXCEPT !.pc = "respond", !.reply = "read_failed"],
          file |-> file, held |-> TRUE]
    ELSE WriteAndRespond(me, MapSet(ReadMapping(file), me.aoc_id, Str(me.author)),
                         file, cache, write_ok, "linked")

\* unlink_command from the lock's acquisition to its first await or raise.
unlink_command_begin(me, file, cache, write_ok) ==
    LET found == FirstLinked(ReadMapping(file), Str(me.author))
    IN  IF file.kind = "corrupt"
        THEN [me |-> [me EXCEPT !.pc = "respond", !.reply = "read_failed"],
              file |-> file, held |-> TRUE]
        ELSE IF found = 0
        THEN [me |-> [me EXCEPT !.pc = "respond", !.reply = "not_linked"],
              file |-> file, held |-> TRUE]
        ELSE WriteAndRespond([me EXCEPT !.aoc_id = ReadMapping(file)[found][1]],
                             MapPop(ReadMapping(file), found),
                             file, cache, write_ok, "unlinked")

\* A command is between its read of the mapping and its write-back.
InReadModifyWrite(c) == cmd[c].pc = "respond" /\ cmd[c].reply \in {"linked", "unlinked"}

EndCmd(me, pc) ==
    [IdleCmd EXCEPT !.pc = pc, !.kind = me.kind, !.author = me.author,
                    !.aoc_id = me.aoc_id, !.replies = me.replies, !.reply = me.reply]

\* The command starts.  With the lock held by a suspended command, the blocking
\* acquire keeps the event-loop thread for good.
Begin(c, me, r) ==
    IF ~username_db_lock_free(lock)
    THEN /\ cmd' = [cmd EXCEPT ![c] = [me EXCEPT !.pc = "blocked"]]
         /\ thread' = CmdId(c)
         /\ UNCHANGED <<mappingFile, lock, interleaved>>
    ELSE /\ cmd' = [cmd EXCEPT ![c] = IF r.me.pc = "failed" THEN EndCmd(r.me, "failed")
                                      ELSE r.me]
         /\ mappingFile' = r.file
         /\ lock' = IF r.held THEN c ELSE 0
         /\ interleaved' = (interleaved \/ \E d \in Cmds \ {c} : InReadModifyWrite(d))
         /\ thread' = Free

LinkStart(c) ==
    /\ thread = Free
    /\ cmd[c].pc = "idle"
    /\ \A j \in Cmds : j < c => cmd[j].pc # "idle"
    /\ \E author \in Users, aoc_id \in AocIds, write_ok \in BOOLEAN :
         LET me == [cmd[c] EXCEPT !.kind = "link", !.author = author,
                                  !.aoc_id = Str(aoc_id)]
         IN  /\ write_ok \/ mappingFile.kind = "absent"
             /\ Begin(c, me, link_command_begin(me, mappingFile, cacheFile, write_ok))
    /\ UNCHANGED <<call, cfg, cacheFile, backups, cyc, webhooks, roleCalls, crashes, history>>

UnlinkStart(c) ==
    /\ thread = Free
    /\ cmd[c].pc = "idle"
    /\ \A j \in Cmds : j < c => cmd[j].pc # "idle"
    /\ \E author \in Users, write_ok \in BOOLEAN :
         LET me == [cmd[c] EXCEPT !.kind = "unlink", !.author = author]
         IN  /\ write_ok \/ mappingFile.kind = "absent"
             /\ Begin(c, me, unlink_command_begin(me, mappingFile, cacheFile, write_ok))
    /\ UNCHANGED <<call, cfg, cacheFile, backups, cyc, webhooks, roleCalls, crashes, history>>

\* ctx.respond returns.  After a successful open the `with open` block ends and
\* the mapping reaches the file; link_command goes on to the completion check.
RespondReturn(c) ==
    /\ thread = Free
    /\ cmd[c].pc = "respond"
    /\ LET me == [cmd[c] EXCEPT !.replies = @ + 1]
           written == me.reply \in {"linked", "unlinked"}
           file == IF written THEN Json(me.mapping) ELSE mappingFile
           events == get_leaderboard_set(me.cached, cfg.require_both_stars)
           notify == me.reply = "linked" /\ solved_all_days(events, me.aoc_id)
       IN  /\ mappingFile' = file
           /\ history' = IF written
                         THEN Append(history, [kind |-> me.kind, author |-> me.author,
                                               aoc_id |-> me.aoc_id])
                         ELSE history
           /\ cmd' = [cmd EXCEPT ![c] =
                  IF notify
                  THEN [me EXCEPT !.pc = "await_webhook",
                           !.line = [event |-> <<me.aoc_id>>,
                                     display |-> <<"author", Str(me.author)>>,
                                     final |-> display_final_message(
                                                   file, me.aoc_id, cfg.completion_role)]]
                  ELSE EndCmd(me, "done")]
           /\ lock' = IF notify THEN lock ELSE 0
    /\ UNCHANGED <<call, cfg, cacheFile, backups, thread, cyc, webhooks, roleCalls, crashes,
                   interleaved>>

\* link_command's execute_webhook returns or raises; on return give_role runs.
LinkWebhookReturn(c) ==
    /\ thread = Free
    /\ cmd[c].pc = "await_webhook"
    /\ \E ok \in BOOLEAN :
         LET grant == ok /\ give_role_calls(mappingFile, cmd[c].aoc_id, cfg.completion_role)
         IN  /\ webhooks' = IF ok
                            THEN Append(webhooks, [by |-> CmdId(c), lines |-> <<cmd[c].line>>])
                            ELSE webhooks
             /\ roleCalls' = IF grant
                             THEN roleCalls \cup {[by |-> CmdId(c), member |-> cmd[c].aoc_id,
                                                   user |-> MapValue(mappingFile.data,
                                                                     cmd[c].aoc_id)]}
                             ELSE roleCalls
             /\ cmd' = [cmd EXCEPT ![c] =
                    IF grant THEN [cmd[c] EXCEPT !.pc = "await_role"]
                    ELSE EndCmd(cmd[c], IF ok THEN "done" ELSE "failed")]
             /\ lock' = IF grant THEN lock ELSE 0
    /\ UNCHANGED <<call, cfg, cacheFile, backups, mappingFile, thread, cyc, crashes, history,
                   interleaved>>

\* link_command's add_role_to_member returns or raises: give_role returns.
LinkRoleReturn(c) ==
    /\ thread = Free
    /\ cmd[c].pc = "await_role"
    /\ cmd' = [cmd EXCEPT ![c] = EndCmd(cmd[c], "done")]
    /\ lock' = 0
    /\ UNCHANGED <<call, cfg, cacheFile, backups, mappingFile, thread, cyc, webhooks, roleCalls,
                   crashes, history, interleaved>>

\* ------------------------------------------------------------------ crash
CycleInFlight(k) == cyc[k].pc \notin {"idle", "done", "failed", "crashed"}
CmdInFlight(c) == cmd[c].pc \notin {"idle", "done", "failed", "crashed"}

\* The process dies and is started again: coroutines and the lock are gone, the
\* files stay as they are on disk.
Crash ==
    /\ crashes < MaxCrashes
    /\ (\E k \in Cycles : CycleInFlight(k)) \/ (\E c \in Cmds : CmdInFlight(c))
    /\ crashes' = crashes + 1
    /\ cyc' = [k \in Cycles |->
                  IF CycleInFlight(k)
                  THEN [IdleCycle EXCEPT !.pc = "crashed", !.status = cyc[k].status,
                                         !.outcome = cyc[k].outcome]
                  ELSE cyc[k]]
    /\ cmd' = [c \in Cmds |-> IF CmdInFlight(c) THEN EndCmd(cmd[c], "crashed") ELSE cmd[c]]
    /\ thread' = Free
    /\ lock' = 0
    /\ UNCHANGED <<call, cfg, cacheFile, backups, mappingFile, webhooks, roleCalls, history,
                   interleaved>>

\* ------------------------------------------------- helpers called on their own
Pending(fn, args) == [fn |-> fn, args |-> args, returned |-> FALSE, ret |-> <<>>]

\* Event sets for solved_all_days: member 7 with the second part of every day
\* but the missing ones, and around them any of: member 42's second parts of
\* all days, member 7's first parts of all days, second parts of member 7 for
\* day 0 and day 26.
SecondParts(member, days) == {<<Str(member), Str(d), Str(2)>> : d \in days}
FirstParts(member, days) == {<<Str(member), Str(d), Str(1)>> : d \in days}
Surroundings ==
    {SecondParts(42, 1..TotalDays), FirstParts(7, 1..TotalDays),
     SecondParts(7, {0, TotalDays + 1})}
SolvedCalls ==
    {Pending("solved_all_days",
             [events |-> SecondParts(7, (1..TotalDays) \ missing) \cup UNION around,
              member_id |-> Str(m)]) :
        missing \in {{}} \cup {{d} : d \in 1..TotalDays},
        around \in SUBSET Surroundings,
        m \in AocIds}

\* Leaderboards for the diff: member 42 with no day, with the first part of day
\* 5, or with both parts of day 5.
Day5(parts) ==
    [m \in {Str(42)} |->
        Member(42, FALSE, [d \in (IF parts = {} THEN {} ELSE {Str(5)}) |-> parts])]
Day5Leaderboards == {Day5({}), Day5({Str(1)}), Day5({Str(1), Str(2)})}
DiffCalls ==
    {Pending("diff", [old |-> old, new |-> new, require_both |-> rb]) :
        old \in Day5Leaderboards, new \in Day5Leaderboards, rb \in BOOLEAN}

\* Contents of every length up to MaxContentLen (the digits, over and over)
\* against every max_content_len up to MaxContentLen.
Content(len) == [i \in 1..len |-> 48 + (i % 10)]
SendCalls ==
    {Pending("send_webhook_notification",
             [content |-> Content(len), max_content_len |-> max]) :
        len \in 0..MaxContentLen, max \in 0..MaxContentLen}

\* Every month of two years for date.today().
YearCalls ==
    {Pending("get_default_year", [year |-> y, month |-> m]) :
        y \in {2025, 2026}, m \in 1..12}

Returns(value) == call' = [call EXCEPT !.returned = TRUE, !.ret = value]

CallSolvedAllDays ==
    /\ call.fn = "solved_all_days" /\ ~call.returned
    /\ Returns(solved_all_days(call.args.events, call.args.member_id))
    /\ UNCHANGED <<cfg, cacheFile, backups, mappingFile, lock, thread, cyc, cmd, webhooks,
                   roleCalls, crashes, history, interleaved>>

CallDiff ==
    /\ call.fn = "diff" /\ ~call.returned
    /\ Returns(on_schedule_diff(call.args.old, call.args.new, call.args.require_both))
    /\ UNCHANGED <<cfg, cacheFile, backups, mappingFile, lock, thread, cyc, cmd, webhooks,
                   roleCalls, crashes, history, interleaved>>

CallSendWebhookNotification ==
    /\ call.fn = "send_webhook_notification" /\ ~call.returned
    /\ Returns(send_webhook_notification(call.args.content, call.args.max_content_len))
    /\ UNCHANGED <<cfg, cacheFile, backups, mappingFile, lock, thread, cyc, cmd, webhooks,
                   roleCalls, crashes, history, interleaved>>

CallGetDefaultYear ==
    /\ call.fn = "get_default_year" /\ ~call.returned
    /\ Returns(get_default_year(call.args))
    /\ UNCHANGED <<cfg, cacheFile, backups, mappingFile, lock, thread, cyc, cmd, webhooks,
                   roleCalls, crashes, history, interleaved>>

\* The poll cycle alone: every tick, with crashes.
NextPoll ==
    \/ \E k \in Cycles : Tick(k)
    \/ \E k \in Cycles : GuildReturn(k)
    \/ \E k \in Cycles : RoleReturn(k)
    \/ \E k \in Cycles : WebhookReturn(k)
    \/ \E k \in Cycles : SaveOpen(k)
    \/ \E k \in Cycles : SaveDump(k)
    \/ Crash

SpecPoll == InitPoll /\ [][NextPoll]_vars

\* The first run after a first start: no cache file yet.
InitFirstRun == Start({Absent}, MappingFiles) /\ call = NoCall

NextFirstRun ==
    \/ Tick(1)
    \/ GuildReturn(1)
    \/ RoleReturn(1)
    \/ WebhookReturn(1)
    \/ SaveOpen(1)
    \/ SaveDump(1)
    \/ Crash

SpecFirstRun == InitFirstRun /\ [][NextFirstRun]_vars

\* The commands alone: every invocation, with crashes.
NextLink ==
    \/ \E c \in Cmds : LinkStart(c)
    \/ \E c \in Cmds : UnlinkStart(c)
    \/ \E c \in Cmds : RespondReturn(c)
    \/ \E c \in Cmds : LinkWebhookReturn(c)
    \/ \E c \in Cmds : LinkRoleReturn(c)
    \/ Crash

SpecLink == InitLink /\ [][NextLink]_vars

\* The commands against mapping files of every shape.
SpecMapping == InitMapping /\ [][NextLink]_vars

\* The helper functions, each called on its own on every input of its sample.
InitHelpers ==
    /\ Start({Json(Cached)}, {Absent})
    /\ call \in SolvedCalls \cup DiffCalls \cup SendCalls \cup YearCalls

NextHelpers ==
    \/ CallSolvedAllDays
    \/ CallDiff
    \/ CallSendWebhookNotification
    \/ CallGetDefaultYear

SpecHelpers == InitHelpers /\ [][NextHelpers]_vars

\* The whole bot: one poll cycle against one command.
Next ==
    \/ Tick(1)
    \/ GuildReturn(1)
    \/ RoleReturn(1)
    \/ WebhookReturn(1)
    \/ SaveOpen(1)
    \/ SaveDump(1)
    \/ LinkStart(1)
    \/ UnlinkStart(1)
    \/ RespondReturn(1)
    \/ LinkWebhookReturn(1)
    \/ LinkRoleReturn(1)

Spec == Init /\ [][Next]_vars

\* ------------------------------------------------------------- properties
\* Run k starts in this step (a scheduler tick).
Ticks(k) == cyc[k].pc = "idle" /\ cyc'[k].pc # "idle"

CachedEvents == get_leaderboard_set(retrieve_cached_leaderboard(cacheFile).value,
                                    cfg.require_both_stars)

FetchedEvents(c) == get_leaderboard_set(c.new, cfg.require_both_stars)

\* The events of the lines of one webhook call.
Dispatched(w) == {w.lines[n].event : n \in 1..Len(w.lines)}

\* C1: whenever the cached EventSet holds an event the fetched EventSet lacks,
\* the run takes the backup-and-replace path: the old cache file is moved to a
\* backup and the save of the fresh snapshot follows, new events or not.
C1_EveryRegressionIsBackedUp ==
    [][\A k \in Cycles :
          (/\ Ticks(k)
           /\ cacheFile.kind = "json"
           /\ cyc'[k].status = "ok"
           /\ CachedEvents \ get_leaderboard_set(cyc'[k].new, cfg.require_both_stars) # {})
          => (/\ cyc'[k].pc = "save_open"
              /\ cacheFile \in backups'
              /\ cacheFile' = Absent)]_vars

\* The mapping after the mutations written back so far, applied one at a time.
RECURSIVE Replay(_)
Replay(h) ==
    IF h = <<>> THEN <<>>
    ELSE LET m == Replay(SubSeq(h, 1, Len(h) - 1))
             op == h[Len(h)]
         IN  IF op.kind = "link" THEN MapSet(m, op.aoc_id, Str(op.author))
             ELSE IF FirstLinked(m, Str(op.author)) = 0 THEN m
             ELSE MapPop(m, FirstLinked(m, Str(op.author)))

\* C2: no command reads the mapping between another command's read and its
\* write-back, and once every command has finished the mapping file holds the
\* result of applying the commands one at a time.
C2_CommandsAreSerialized ==
    /\ ~interleaved
    /\ Cardinality({c \in Cmds : InReadModifyWrite(c)}) <= 1
    /\ ((\A c \in Cmds : ~CmdInFlight(c)) /\ mappingFile.kind # "corrupt")
          => ReadMapping(mappingFile) = Replay(history)

\* C2's case: a link and then an unlink have both been written back.
C2_Witness ==
    /\ Len(history) = 2
    /\ history[1].kind = "link"
    /\ history[2].kind = "unlink"
    /\ \A c \in Cmds : cmd[c].pc = "done"
    /\ mappingFile = Json(<<>>)

\* C3: a command that arrives while another is suspended holding
\* username_db_lock never leaves the event-loop thread stuck in the acquire;
\* the commands finish and ticks keep being served.
C3_ThreadNeverStuck ==
    \A c \in Cmds : ~(cmd[c].pc = "blocked" /\ thread = CmdId(c) /\ lock # 0)

\* C4: a run whose fetched EventSet equals the cached EventSet ends at once in
\* NO_CHANGE: no webhook call, no role grant, no backup, cache file unchanged.
C4_NoChangeTouchesNothing ==
    [][\A k \in Cycles :
          (/\ Ticks(k)
           /\ cacheFile.kind # "corrupt"
           /\ cyc'[k].status = "ok"
           /\ CachedEvents = get_leaderboard_set(cyc'[k].new, cfg.require_both_stars))
          => (/\ cyc'[k].pc = "done"
              /\ cyc'[k].outcome = "no_change"
              /\ cacheFile' = cacheFile
              /\ backups' = backups
              /\ webhooks' = webhooks
              /\ roleCalls' = roleCalls)]_vars

\* C4's case: a run ended in NO_CHANGE on a snapshot that differs from the cached
\* one (a first part only), and the cache still holds the old snapshot.
C4_Witness ==
    \E k \in Cycles :
        /\ cyc[k].pc = "done"
        /\ cyc[k].outcome = "no_change"
        /\ cacheFile = Json(Cached)
        /\ cyc[k].new # Cached

\* The runs so far fetched EventSets that only grow, and each failed at the
\* fetch or ran to completion.
GrowingCompleteRuns ==
    /\ \A k \in Cycles :
          \/ cyc[k].pc \in {"idle", "done"}
          \/ cyc[k].pc = "failed" /\ cyc[k].outcome = "fetch_error"
    /\ \A j, k \in Cycles :
          (j < k /\ cyc[j].pc = "done" /\ cyc[k].pc = "done")
          => FetchedEvents(cyc[j]) \subseteq FetchedEvents(cyc[k])

\* C5: over runs that fetch growing EventSets and each fail at the fetch or
\* complete, no CompletionEvent is in the dispatched diff of two runs.
C5_EventsNotifiedOnce ==
    GrowingCompleteRuns
    => \A i, j \in 1..Len(webhooks) :
          i # j => Dispatched(webhooks[i]) \cap Dispatched(webhooks[j]) = {}

\* C6: a run whose fetch fails aborts: cache file unchanged, no backup, no
\* webhook call, no role grant.
C6_FetchFailureAborts ==
    [][\A k \in Cycles :
          (Ticks(k) /\ cyc'[k].status \in {"neterr", "http_error"})
          => (/\ cyc'[k].pc = "failed"
              /\ cacheFile' = cacheFile
              /\ backups' = backups
              /\ webhooks' = webhooks
              /\ roleCalls' = roleCalls)]_vars

\* C6's case: a run failed at the fetch and the next tick started from the same
\* cached snapshot.
C6_Witness ==
    /\ cyc[1].pc = "failed"
    /\ cyc[1].outcome = "fetch_error"
    /\ cyc[1].status = "http_error"
    /\ cyc[2].pc = "await_guild"
    /\ cacheFile = Json(Cached)

\* C7: at most one poll-diff-notify cycle is in flight at any time.
C7_OneCycleInFlight == Cardinality({k \in Cycles : CycleInFlight(k)}) <= 1

\* C8: every command invocation that finishes has produced exactly one reply.
C8_ExactlyOneReply ==
    \A c \in Cmds : cmd[c].pc \in {"done", "failed"} => cmd[c].replies = 1

\* C9: with the reward role configured and nothing failing, once the run and
\* the command are over, a member who is in the mapping and whose 25 second
\* parts are in the persisted snapshot has had a role grant attempted.
C9_LinkedFinisherGetsRole ==
    \A a \in AocIds :
        (/\ cfg.completion_role
         /\ \A k \in Cycles : cyc[k].pc \in {"idle", "done"}
         /\ \A c \in Cmds : cmd[c].pc \in {"idle", "done"}
         /\ mappingFile.kind = "json" /\ MapHas(mappingFile.data, Str(a))
         /\ cacheFile.kind = "json"
         /\ solved_all_days(CachedEvents, Str(a)))
        => \E r \in roleCalls : r.member = Str(a)

\* C10: whenever no save is under way, crash or not, the cache file is a
\* complete snapshot (or does not exist), never an empty or truncated file.
C10_SaveIsAtomic ==
    (\A k \in Cycles : cyc[k].pc # "save_dump") => cacheFile.kind # "corrupt"

\* Command c starts in this step and gets past the lock.
Enters(c) == cmd[c].pc = "idle" /\ cmd'[c].pc \notin {"idle", "blocked"}

\* ctx.respond of command c returns in this step.
Replies(c) == cmd[c].pc = "respond" /\ cmd'[c].replies = cmd[c].replies + 1

\* C11: a command that finds the mapping file present but not parseable leaves
\* the file as it is, sends the failure reply (one reply) and, once the reply
\* has returned, has released the lock.
C11_UnreadableMappingAborts ==
    [][\A c \in Cmds :
          /\ (Enters(c) /\ mappingFile.kind = "corrupt")
                => (/\ cmd'[c].pc = "respond"
                    /\ cmd'[c].reply = "read_failed"
                    /\ mappingFile' = mappingFile)
          /\ (cmd[c].pc = "respond" /\ cmd[c].reply = "read_failed")
                => mappingFile' = mappingFile
          /\ (Replies(c) /\ cmd[c].reply = "read_failed")
                => (/\ cmd'[c].pc = "done"
                    /\ cmd'[c].replies = 1
                    /\ lock' = 0
                    /\ history' = history)]_vars

\* C11's case: an unlink found the truncated mapping file, replied and ended;
\* the file is still the truncated one and the lock is free.
C11_Witness ==
    \E c \in Cmds :
        /\ cmd[c].pc = "done"
        /\ cmd[c].kind = "unlink"
        /\ cmd[c].reply = "read_failed"
        /\ cmd[c].replies = 1
        /\ mappingFile = Corrupt
        /\ lock = 0

\* The mapping as a dict has exactly the entries of old, except that k maps to v.
SameExcept(new, old, k, v) ==
    /\ MapKeys(new) = MapKeys(old) \cup {k}
    /\ Len(new) = Cardinality(MapKeys(new))
    /\ \E i \in 1..Len(new) : new[i] = <<k, v>>
    /\ \A j \in 1..Len(old) :
          old[j][1] # k => \E i \in 1..Len(new) : new[i] = old[j]

\* C12: a link by user U for id R that succeeds writes the previous mapping
\* (empty when the file did not exist) with R mapped to U and every other entry
\* unchanged; from no file, the file then holds exactly the entry R -> U.
C12_LinkSetsOneEntry ==
    [][\A c \in Cmds :
          /\ (Enters(c) /\ cmd'[c].kind = "link" /\ cmd'[c].reply = "linked")
                => (/\ SameExcept(cmd'[c].mapping, ReadMapping(mappingFile),
                                  cmd'[c].aoc_id, Str(cmd'[c].author))
                    /\ mappingFile.kind = "absent"
                          => cmd'[c].mapping = <<<<cmd'[c].aoc_id, Str(cmd'[c].author)>>>>)
          /\ (Replies(c) /\ cmd[c].reply = "linked")
                => mappingFile' = Json(cmd[c].mapping)]_vars

\* C12's case: the first link, with no mapping file before it, has ended and the
\* file holds exactly its entry.
C12_Witness ==
    /\ Len(history) = 1
    /\ cmd[1].pc = "done"
    /\ cmd[1].kind = "link"
    /\ cmd[1].reply = "linked"
    /\ cmd[1].aoc_id = Str(7)
    /\ mappingFile = Json(<<<<Str(7), Str(cmd[1].author)>>>>)

\* The mapping without its entry i.
Without(mapping, i) ==
    [n \in 1..(Len(mapping) - 1) |-> IF n < i THEN mapping[n] ELSE mapping[n + 1]]

\* C13: an unlink by user U that gets to write removes exactly the first entry
\* whose value is U and keeps every other entry, other entries of U included;
\* no unlink removes more than one entry; with no entry of U the file is not
\* written and the reply is the not-linked one, not the write-failure one.
C13_UnlinkRemovesFirstMatch ==
    [][\A c \in Cmds :
          LET old == ReadMapping(mappingFile)
              U == Str(cmd'[c].author)
              owned == {i \in 1..Len(old) : old[i][2] = U}
          IN  /\ (Enters(c) /\ cmd'[c].kind = "unlink" /\ mappingFile.kind # "corrupt")
                    => IF owned = {}
                       THEN /\ cmd'[c].pc = "respond"
                            /\ cmd'[c].reply = "not_linked"
                            /\ mappingFile' = mappingFile
                       ELSE \/ /\ cmd'[c].reply = "unlinked"
                               /\ \E i \in owned :
                                     /\ \A j \in owned : i <= j
                                     /\ cmd'[c].mapping = Without(old, i)
                            \/ /\ cmd'[c].pc = "failed"
                               /\ mappingFile' = mappingFile
              /\ (Replies(c) /\ cmd[c].reply = "not_linked")
                    => (/\ mappingFile' = mappingFile
                        /\ history' = history
                        /\ cmd'[c].pc = "done")
              /\ (Replies(c) /\ cmd[c].reply = "unlinked")
                    => mappingFile' = Json(cmd[c].mapping)]_vars

\* C13's case: user 1 held the first two entries, unlinked, and the second
\* entry is still in the file.
C13_Witness ==
    \E c \in Cmds :
        /\ cmd[c].pc = "done"
        /\ cmd[c].kind = "unlink"
        /\ cmd[c].author = 1
        /\ cmd[c].reply = "unlinked"
        /\ Len(history) = 1
        /\ mappingFile = Json(<<<<Str(42), Str(1)>>>>)

\* The events of a sequence of lines, in order.
EventsOf(lines) == [n \in 1..Len(lines) |-> lines[n].event]

\* C14: in a notifying run, once fetch_guild has returned, no outcome of
\* give_role ends the run: the loop goes on to the next grant or to the webhook
\* call with a line for every event of the diff, the webhook call that returns
\* has dispatched all these lines, and the save that follows writes the fetched
\* snapshot.
C14_RoleFailureNeverAborts ==
    [][\A k \in Cycles :
          /\ (/\ cyc[k].pc \in {"await_guild", "await_role"}
              /\ cyc'[k] # cyc[k]
              /\ crashes' = crashes
              /\ cyc'[k].outcome # "guild_error")
                => (/\ cyc'[k].pc \in {"await_role", "await_webhook"}
                    /\ cyc'[k].pc = "await_webhook"
                          => EventsOf(cyc'[k].messages) = cyc'[k].diff
                    /\ cyc'[k].pc = "await_role"
                          => /\ Len(cyc'[k].messages) = cyc'[k].i - 1
                             /\ cyc'[k].pending.event = cyc'[k].diff[cyc'[k].i])
          /\ (cyc[k].pc = "await_webhook" /\ cyc'[k].pc = "save_open")
                => (/\ webhooks' = Append(webhooks, [by |-> CycleId(k),
                                                     lines |-> cyc[k].messages])
                    /\ EventsOf(cyc[k].messages) = cyc[k].diff)
          /\ (cyc[k].pc = "save_dump" /\ cyc'[k].pc = "done")
                => cacheFile' = Json(cyc[k].new)]_vars

\* C14's case: with the reward role configured and a truncated mapping file, a
\* run that had a completer to reward dispatched its batch and saved.
C14_Witness ==
    \E k \in Cycles :
        /\ cfg.completion_role
        /\ mappingFile = Corrupt
        /\ cyc[k].pc = "done"
        /\ cyc[k].outcome = "notify"
        /\ cacheFile = Json(cyc[k].new)
        /\ \E i \in 1..Len(webhooks) :
              /\ webhooks[i].by = CycleId(k)
              /\ \E n \in 1..Len(webhooks[i].lines) :
                    webhooks[i].lines[n].final = "congrats_link"

\* The members with all 25 second parts in the snapshot run c fetched.
Completers(c) == {m \in DOMAIN c.new : solved_all_days(FetchedEvents(c), m)}

\* Every line is the standard line of its event, and carries the congratulation
\* exactly when its member is among done.
CongratulatesOnly(lines, done) ==
    \A n \in 1..Len(lines) :
        /\ Len(lines[n].event) = 3
        /\ lines[n].display # <<>>
        /\ lines[n].final # "none" <=> lines[n].event[1] \in done

\* C15: in the batch a run builds and dispatches, a line carries the
\* congratulation if and only if its member has completed all 25 days on the
\* fetched EventSet, and every line carries the standard completion text.
C15_CongratsOnlyForCompleter ==
    \A k \in Cycles :
        /\ cyc[k].pc \in {"await_role", "await_webhook"}
              => CongratulatesOnly(cyc[k].messages, Completers(cyc[k]))
        /\ cyc[k].pc = "await_role"
              => CongratulatesOnly(<<cyc[k].pending>>, Completers(cyc[k]))
        /\ cyc[k].pc \in {"save_open", "save_dump", "done"}
              => \A i \in 1..Len(webhooks) :
                    webhooks[i].by = CycleId(k)
                    => CongratulatesOnly(webhooks[i].lines, Completers(cyc[k]))

\* C15's case: one dispatched batch holds a line of member 42, who has not
\* completed, without the congratulation, and a line of member 7 with it.
C15_Witness ==
    \E k \in Cycles :
        /\ cyc[k].pc = "done"
        /\ \E i \in 1..Len(webhooks) :
              /\ webhooks[i].by = CycleId(k)
              /\ \E n, m \in 1..Len(webhooks[i].lines) :
                    /\ webhooks[i].lines[n].event[1] = Str(42)
                    /\ webhooks[i].lines[n].final = "none"
                    /\ webhooks[i].lines[m].event[1] = Str(7)
                    /\ webhooks[i].lines[m].final # "none"

\* C20: a run whose fetched EventSet adds nothing but differs from the cached
\* one dispatches nothing and grants no role; the cache file is renamed to a
\* backup, which holds the content the cache had, before the snapshot is
\* written (the primary path is empty in between), and when the run ends the
\* cache file holds the fetched snapshot.
C20_RegressionBacksUpThenSaves ==
    [][\A k \in Cycles :
          /\ (/\ Ticks(k)
              /\ cacheFile.kind # "corrupt"
              /\ cyc'[k].status = "ok"
              /\ FetchedEvents(cyc'[k]) \ CachedEvents = {}
              /\ FetchedEvents(cyc'[k]) # CachedEvents)
                => (/\ cyc'[k].pc = "save_open"
                    /\ webhooks' = webhooks
                    /\ roleCalls' = roleCalls
                    /\ backups' = backups \cup {cacheFile}
                    /\ cacheFile' = Absent)
          /\ (cyc[k].outcome = "regression" /\ cyc[k].pc \in {"save_open", "save_dump"})
                => (/\ webhooks' = webhooks
                    /\ roleCalls' = roleCalls
                    /\ backups' = backups
                    /\ cyc'[k].pc = "done" => cacheFile' = Json(cyc[k].new))]_vars

\* C20's case: member 42 left the leaderboard; the run ended with the old
\* snapshot in a backup, the fetched one in the cache file and nothing sent.
C20_Witness ==
    \E k \in Cycles :
        /\ cyc[k].pc = "done"
        /\ cyc[k].outcome = "regression"
        /\ Json(Cached) \in backups
        /\ cacheFile = Json(cyc[k].new)
        /\ Str(42) \notin DOMAIN cyc[k].new
        /\ webhooks = <<>>
        /\ roleCalls = {}

Returned(fn) == call.fn = fn /\ call.returned

\* C16: solved_all_days(events, member) is true exactly when (member, str(d),
\* "2") is in events for every day d of 1..25, whatever else events holds.
C16_SolvedAllDaysIff ==
    Returned("solved_all_days")
    => (call.ret <=> \A d \in 1..TotalDays :
                        <<call.args.member_id, Str(d), Str(2)>> \in call.args.events)

\* C16's case: member 7 lacks only the second part of day 13, while its first
\* part, member 42's second part of that day and member 7's days 0 and 26 are
\* all there, and the answer is no.
C16_Witness ==
    /\ Returned("solved_all_days")
    /\ call.args.member_id = Str(7)
    /\ call.args.events =
          SecondParts(7, (0..(TotalDays + 1)) \ {13}) \cup FirstParts(7, 1..TotalDays)
          \cup SecondParts(42, 1..TotalDays)
    /\ call.ret = FALSE

\* The scenario's call: cached, member 42 has the first part of day 5; fetched,
\* both parts.
Day5SecondPart(rb) ==
    /\ Returned("diff")
    /\ call.args.old = Day5({Str(1)})
    /\ call.args.new = Day5({Str(1), Str(2)})
    /\ call.args.require_both = rb

\* C17: from member 42 with part 1 of day 5 to both parts of day 5, the diff is
\* {("42", "5", "2")} with require_both and empty without.
C17_SecondPartDiff ==
    /\ Day5SecondPart(TRUE) => call.ret = <<<<Str(42), Str(5), Str(2)>>>>
    /\ Day5SecondPart(FALSE) => call.ret = <<>>

\* C17, amended: from member 42 with part 1 of day 5 to both parts of day 5,
\* the diff is {("42", "5", "2")} with require_both and without it.
C17_SecondPartDiffEitherWay ==
    \A rb \in BOOLEAN :
        Day5SecondPart(rb) => call.ret = <<<<Str(42), Str(5), Str(2)>>>>

\* C17's case: without require_both the second part of day 5 is the diff.
C17_Witness ==
    /\ Day5SecondPart(FALSE)
    /\ call.ret = <<<<Str(42), Str(5), Str(2)>>>>

\* C18: content longer than max_content_len is sent as at most max_content_len
\* characters, the first max_content_len // 3 of the input followed by the
\* marker; shorter content is sent unchanged; for every max_content_len.
C18_TruncationFits ==
    Returned("send_webhook_notification")
    => LET content == call.args.content
           max == call.args.max_content_len
           sent == call.ret
       IN  IF Len(content) > max
           THEN /\ Len(sent) <= max
                /\ Len(sent) >= max \div 3 + Len(Marker)
                /\ SubSeq(sent, 1, max \div 3) = SubSeq(content, 1, max \div 3)
                /\ SubSeq(sent, Len(sent) - Len(Marker) + 1, Len(sent)) = Marker
           ELSE sent = content

\* C19: without --year, the year is the current year in December and the
\* previous year in every other month.
C19_DefaultYear ==
    Returned("get_default_year")
    => call.ret = IF call.args.month = 12 THEN call.args.year ELSE call.args.year - 1

\* Run k takes a step while it builds or dispatches its batch.
Notifying(k) ==
    /\ cyc[k].pc \in {"await_guild", "await_role", "await_webhook"}
    /\ cyc'[k] # cyc[k]

\* C21: a run with a non-empty diff takes the triples of fetched minus cached
\* in ascending order of the string triples, each once; leaves the cache file
\* alone until its webhook call has returned; makes one webhook call, whose
\* content holds the line of every triple, in that order; then writes the
\* fetched snapshot; and when the webhook call fails leaves the cache file as
\* it is, for the next run to compute the diff from.
C21_OneOrderedBatchThenSave ==
    [][\A k \in Cycles :
          /\ (/\ Ticks(k)
              /\ cacheFile.kind # "corrupt"
              /\ cyc'[k].status = "ok"
              /\ FetchedEvents(cyc'[k]) \ CachedEvents # {})
                => (/\ cyc'[k].pc = "await_guild"
                    /\ {cyc'[k].diff[n] : n \in 1..Len(cyc'[k].diff)}
                          = FetchedEvents(cyc'[k]) \ CachedEvents
                    /\ \A n \in 1..(Len(cyc'[k].diff) - 1) :
                          TupleLess(cyc'[k].diff[n], cyc'[k].diff[n + 1])
                    /\ cacheFile' = cacheFile
                    /\ webhooks' = webhooks)
          /\ Notifying(k) => cacheFile' = cacheFile
          /\ (Notifying(k) /\ cyc'[k].pc = "failed") => webhooks' = webhooks
          /\ (Notifying(k) /\ cyc'[k].pc = "save_open")
                => (/\ \A i \in 1..Len(webhooks) : webhooks[i].by # CycleId(k)
                    /\ webhooks' = Append(webhooks, [by |-> CycleId(k),
                                                     lines |-> cyc[k].messages])
                    /\ EventsOf(cyc[k].messages) = cyc[k].diff
                    /\ lines_sent(cyc[k].messages, DefaultMaxContentLen)
                          = Len(cyc[k].diff))
          /\ (cyc[k].outcome = "notify" /\ cyc[k].pc = "save_dump" /\ cyc'[k].pc = "done")
                => cacheFile' = Json(cyc[k].new)]_vars

\* C22: when a run ends in NO_CHANGE, or ends after the save of the regression
\* or of the notifying path, the EventSet of the cache file equals the EventSet
\* of the snapshot the run fetched, under the configured require_both_stars.
C22_CacheMatchesFetched ==
    [][\A k \in Cycles :
          (cyc[k].pc # "done" /\ cyc'[k].pc = "done")
          => (/\ cyc'[k].outcome \in {"no_change", "regression", "notify"}
              /\ cacheFile'.kind # "corrupt"
              /\ get_leaderboard_set(retrieve_cached_leaderboard(cacheFile').value,
                                      cfg.require_both_stars)
                    = FetchedEvents(cyc'[k]))]_vars

\* C22's case: under require_both_stars a run fetched a snapshot with one more
\* first part, ended in NO_CHANGE, and the cache file, though another document,
\* has the fetched EventSet; before it a run failed at the fetch.
C22_Witness ==
    /\ cfg.require_both_stars
    /\ cyc[1].pc = "failed"
    /\ cyc[2].pc = "done"
    /\ cyc[2].outcome = "no_change"
    /\ cacheFile.kind = "json"
    /\ cacheFile.data # cyc[2].new
    /\ CachedEvents = FetchedEvents(cyc[2])

====
